---------------------------- MODULE Spec2Model ----------------------------
(***************************************************************************)
(* The voice-guided client-intake dialogue of the Torino tile catalogue    *)
(* (src/app.py, process_voice) together with the session it lives in and   *)
(* the routes that change that session (login, client_login, logout).      *)
(*                                                                         *)
(* Text is a sequence of one-character strings, so that lower(), strip(),  *)
(* title() and the substring tests of the handler are computed, not        *)
(* assumed.                                                                *)
(***************************************************************************)
EXTENDS Integers, Sequences, FiniteSets, TLC

VARIABLES
    session,    \* the Flask session (the cookie): a mapping from the keys present to their values
    nclients,   \* number of rows of the clients table
    request,    \* the request handled last, with the session it arrived with
    response,   \* the response to it
    calls,      \* the add_client calls it made, each with the identifier it got (0: failure)
    script,     \* how many utterances of the happy-path scenario have been sent in a row
    attempts,   \* the add_client calls made during that scenario
    corrections, \* how many times in a row the same last-name correction was sent (at most 2)
    revision,   \* how many utterances of the corrected-name scenario have been sent in a row
    inflight,   \* the process_voice requests sent and not yet answered, each with the cookie it carries
    burst       \* the requests sent while none had been answered: the state they started from, their texts, the Clients they created

vars == <<session, nclients, request, response, calls, script, attempts, corrections, revision,
          inflight, burst>>

----------------------------------------------------------------------------
(* Bounds *)

\* Rows the clients table can take before add_client fails.
MaxClients == 1

\* Requests of one session that can be in flight at once.
MaxInFlight == 2

\* Rows the clients table can take when requests overlap.
MaxBurstClients == 2

----------------------------------------------------------------------------
(* Characters and the str methods the handler uses *)

UpperLetters ==
    <<"A","B","C","D","E","F","G","H","I","J","K","L","M",
      "N","O","P","Q","R","S","T","U","V","W","X","Y","Z">>

LowerLetters ==
    <<"a","b","c","d","e","f","g","h","i","j","k","l","m",
      "n","o","p","q","r","s","t","u","v","w","x","y","z">>

IsUpper(c) == \E i \in 1..26 : UpperLetters[i] = c

IsLower(c) == \E i \in 1..26 : LowerLetters[i] = c

IsCased(c) == IsUpper(c) \/ IsLower(c)

IsSpace(c) == c \in {" ", "\t", "\n", "\r"}

ToLower(c) ==
    IF IsUpper(c) THEN LowerLetters[CHOOSE i \in 1..26 : UpperLetters[i] = c] ELSE c

ToUpper(c) ==
    IF IsLower(c) THEN UpperLetters[CHOOSE i \in 1..26 : LowerLetters[i] = c] ELSE c

\* str.lower()
Lowercase(s) == [i \in 1..Len(s) |-> ToLower(s[i])]

\* str.strip(): leading and trailing whitespace removed
Strip(s) ==
    LET keep == {i \in 1..Len(s) : ~IsSpace(s[i])}
    IN  IF keep = {} THEN <<>>
        ELSE LET first == CHOOSE i \in keep : \A j \in keep : i <= j
                 last  == CHOOSE i \in keep : \A j \in keep : j <= i
             IN  SubSeq(s, first, last)

\* str.title(): a cased character is upper-cased after an uncased one (or at the
\* start) and lower-cased after a cased one
Title(s) ==
    [i \in 1..Len(s) |->
        IF i = 1 \/ ~IsCased(s[i-1]) THEN ToUpper(s[i]) ELSE ToLower(s[i])]

\* word in text
Contains(text, word) ==
    \E i \in 0..(Len(text) - Len(word)) : SubSeq(text, i + 1, i + Len(word)) = word

----------------------------------------------------------------------------
(* Dialogue steps (spec section 3; the integers the handler compares with) *)

Idle == 0
AwaitLastNameConfirm == 1
AwaitFirstName == 2
AwaitAddress == 3
AwaitPhone == 4
AwaitEmail == 5

\* {} of Python: a mapping with no key
EmptyData == [k \in {} |-> <<>>]

\* d[k] = v
Put(d, k, v) == [x \in DOMAIN d \cup {k} |-> IF x = k THEN v ELSE d[x]]

\* session.pop(k, None)
Pop(d, k) == [x \in DOMAIN d \ {k} |-> d[x]]

\* {'step': 0, 'data': {}}
NewGuide == [step |-> 0, data |-> EmptyData]


----------------------------------------------------------------------------
(* Collaborators that the handler calls and that src/ does not define *)

\* spell_out(name): the name letter by letter, its characters separated by
\* spaces, the spaces of the name itself left out (spec section 4.1)
SpellOut(name) ==
    LET letters == SelectSeq(name, LAMBDA c : ~IsSpace(c))
    IN  [i \in 1..(2 * Len(letters) - (IF Len(letters) = 0 THEN 0 ELSE 1)) |->
            IF i % 2 = 1 THEN letters[(i + 1) \div 2] ELSE " "]

\* add_client(full_name, address, phone, email): the new row's identifier, or
\* 0 (a false value) when the repository fails (spec section 6). ok is the
\* repository's outcome, rows the number of rows before the call.
AddClient(full_name, address, phone, email, ok, rows) ==
    IF ok THEN rows + 1 ELSE 0

----------------------------------------------------------------------------
(* What the client sends *)

U_Smith == <<"S","m","i","t","h">>
U_Yes == <<"y","e","s">>
U_John == <<"J","o","h","n">>
\* "123 Main St, Springfield, IL 62704"
U_Address ==
    <<"1","2","3"," ","M","a","i","n"," ","S","t",","," ","S","p","r","i","n","g",
      "f","i","e","l","d",","," ","I","L"," ","6","2","7","0","4">>
U_Phone == <<"5","5","5","-","1","2","3","-","4","5","6","7">>
U_Email == <<"j","o","h","n","@","e","x","a","m","p","l","e",".","c","o","m">>
U_Correct == <<"C","o","r","r","e","c","t">>
U_Cancel == <<"C","a","n","c","e","l">>
U_YesStop == <<"y","e","s",","," ","s","t","o","p">>
U_NeverMind == <<"N","e","v","e","r"," ","m","i","n","d">>
U_Blank == <<" "," "," ">>
U_Empty == <<>>

Utterances ==
    { U_Smith, U_Yes, U_John, U_Address, U_Phone, U_Email, U_Correct,
      U_Cancel, U_YesStop, U_NeverMind, U_Blank, U_Empty }

\* (username, password) pairs posted to /login
Credentials ==
    { <<"admin", "password">>, <<"admin", "x">>, <<"bad", "x">>, <<"bad", "password">> }

----------------------------------------------------------------------------
(* The session: Flask's cookie session, which is written back with the      *)
(* response only when a key of the session itself was assigned; a change    *)
(* inside a value the session holds is not seen.                            *)

EmptySession == [k \in {} |-> 0]

\* the session at the end of a request whose handler left `guide` as the value
\* of session['client_guide'], having assigned a session key or not
SaveSession(sess, modified, guide) ==
    IF modified THEN Put(sess, "client_guide", guide) ELSE sess

----------------------------------------------------------------------------
(* process_voice *)

\* Authenticated with the check left out
AuthenticatedAlways(sess) == TRUE

\* 'user' in session
Authenticated(sess) == "user" \in DOMAIN sess

\* Normalize without strip()
NormalizeNoStrip(raw) == Lowercase(raw)

\* request.json.get('text', '').lower().strip()
Normalize(raw) == Strip(Lowercase(raw))

CancelWords ==
    { <<"c","a","n","c","e","l">>,
      <<"s","t","o","p">>,
      <<"n","e","v","e","r"," ","m","i","n","d">> }

\* IsCancel without the two-word keyword
IsCancelOneWord(text) ==
    Contains(text, <<"c","a","n","c","e","l">>) \/ Contains(text, <<"s","t","o","p">>)

\* any(word in text for word in ['cancel', 'stop', 'never mind'])
IsCancel(text) == \E word \in CancelWords : Contains(text, word)

\* IsConfirm without 'correct'
IsConfirmYesOnly(text) == Contains(text, <<"y","e","s">>)

\* 'yes' in text or 'correct' in text
IsConfirm(text) ==
    \/ Contains(text, <<"y","e","s">>)
    \/ Contains(text, <<"c","o","r","r","e","c","t">>)

\* What the handler computes from the posted text alone: the normalized text,
\* the two keyword tests, text.title() and its spelling.
Analyse(raw) ==
    LET text == Normalize(raw)
        last_name == Title(text)
    IN  [text |-> text, cancel |-> IsCancel(text), confirm |-> IsConfirm(text),
         last_name |-> last_name, spelled |-> SpellOut(last_name)]

\* Analyse, computed once for each utterance
Analysed == [raw \in Utterances |-> Analyse(raw)]

\* prompts, indexed from 0 as in the handler
Prompts ==
    << "Last Name?",
       "First Name?",
       "Address, including street, city, state, and zip?",
       "Phone number?",
       "Email address?" >>

Prompt(i) == Prompts[i + 1]

\* key_map = {2: 'first_name', 3: 'address', 4: 'phone'}
KeyMap(step) ==
    CASE step = 2 -> "first_name"
      [] step = 3 -> "address"
      [] step = 4 -> "phone"

\* A formatted string: the template, the values put into it, the prompt put into it.
Msg(tpl, args, prompt) == [tpl |-> tpl, args |-> args, prompt |-> prompt]

NoMsg == Msg("", <<>>, "")

\* jsonify({...}): a key the handler leaves out has reset FALSE, client_id 0,
\* next_step -1, tts NoMsg
Json(success, message, tts, reset, client_id, next_step) ==
    [status |-> 200, success |-> success, message |-> message, tts |-> tts,
     reset |-> reset, client_id |-> client_id, next_step |-> next_step]

\* What a branch of the handler leaves: the value session['client_guide'] refers
\* to, whether the branch assigned that key, the response, the add_client calls.
Outcome(guide, assigned, resp, made) ==
    [guide |-> guide, assigned |-> assigned, resp |-> resp, calls |-> made]

\* CancelBranch answering without the reset flag
CancelBranchNoFlag(state) ==
    Outcome(NewGuide, TRUE,
            Json(TRUE, Msg("Client creation cancelled. What else can I help with?", <<>>, ""),
                 NoMsg, FALSE, 0, -1),
            <<>>)

\* CancelBranch resetting the step and keeping the collected data
CancelBranchKeepsData(state) ==
    Outcome([state EXCEPT !.step = 0], TRUE,
            Json(TRUE, Msg("Client creation cancelled. What else can I help with?", <<>>, ""),
                 NoMsg, TRUE, 0, -1),
            <<>>)

\* lines 353-355
CancelBranch(state) ==
    Outcome(NewGuide, TRUE,
            Json(TRUE, Msg("Client creation cancelled. What else can I help with?", <<>>, ""),
                 NoMsg, TRUE, 0, -1),
            <<>>)

\* IdleBranch storing the text as it came, not title-cased
IdleBranchVerbatim(state, h) ==
    LET st == [step |-> 1, data |-> Put(state.data, "last_name", h.text)]
    IN  Outcome(st, TRUE,
            Json(TRUE,
                 Msg("You said {last_name}. Confirm spelling: {spelled}. Is that correct? Say 'yes' or correct it.",
                     <<h.text, h.spelled>>, ""),
                 Msg("Absolutely, let's start a new client profile! Please answer the following questions. {prompts[0]}",
                     <<>>, Prompt(0)),
                 FALSE, 0, 0),
            <<>>)

\* lines 365-375
IdleBranch(state, h) ==
    LET st == [step |-> 1, data |-> Put(state.data, "last_name", h.last_name)]
    IN  Outcome(st, TRUE,
            Json(TRUE,
                 Msg("You said {last_name}. Confirm spelling: {spelled}. Is that correct? Say 'yes' or correct it.",
                     <<h.last_name, h.spelled>>, ""),
                 Msg("Absolutely, let's start a new client profile! Please answer the following questions. {prompts[0]}",
                     <<>>, Prompt(0)),
                 FALSE, 0, 0),
            <<>>)

\* ConfirmedBranch moving on by the step's own value, as line 401 does for the
\* later steps, but by two
ConfirmedBranchSkips(state, h) ==
    LET step == state.step
        st == [state EXCEPT !.step = step + 2]
    IN  Outcome(st, TRUE,
            Json(TRUE,
                 Msg("Great! Now, {prompts[step]}", <<>>, Prompt(step)),
                 Msg("Perfect. {prompts[step]}", <<>>, Prompt(step)),
                 FALSE, 0, step),
            <<>>)

\* lines 378-386
ConfirmedBranch(state, h) ==
    LET step == state.step
        st == [state EXCEPT !.step = 2]
    IN  Outcome(st, TRUE,
            Json(TRUE,
                 Msg("Great! Now, {prompts[step]}", <<>>, Prompt(step)),
                 Msg("Perfect. {prompts[step]}", <<>>, Prompt(step)),
                 FALSE, 0, step),
            <<>>)

\* CorrectionBranch spelling the name it loaded, not the one just uttered
CorrectionBranchSpellsStored(state, h) ==
    LET spelled == SpellOut(state.data["last_name"])
        st == [state EXCEPT !.data = Put(state.data, "last_name", h.last_name)]
    IN  Outcome(st, FALSE,
            Json(TRUE,
                 Msg("Got it, {last_name}. Spelling: {spelled}. Correct now?",
                     <<h.last_name, spelled>>, ""),
                 Msg("Got it. Confirm spelling: {spelled}. Is that correct?",
                     <<spelled>>, ""),
                 FALSE, 0, 1),
            <<>>)

\* lines 387-395: the name is changed in the loaded value; session['client_guide']
\* is not assigned
CorrectionBranch(state, h) ==
    LET st == [state EXCEPT !.data = Put(state.data, "last_name", h.last_name)]
    IN  Outcome(st, FALSE,
            Json(TRUE,
                 Msg("Got it, {last_name}. Spelling: {spelled}. Correct now?",
                     <<h.last_name, h.spelled>>, ""),
                 Msg("Got it. Confirm spelling: {spelled}. Is that correct?",
                     <<h.spelled>>, ""),
                 FALSE, 0, 1),
            <<>>)

\* CommitBranch answering a creation without the client_id key
CommitBranchNoId(st, h, ok, rows) ==
    LET data == Put(st.data, "email", h.text)
        full_name == data["first_name"] \o <<" ">> \o data["last_name"]
        client_id == AddClient(full_name, data["address"], data["phone"], data["email"], ok, rows)
        call == [full_name |-> full_name, address |-> data["address"],
                 phone |-> data["phone"], email |-> data["email"], client_id |-> client_id]
    IN  IF client_id # 0
        THEN Outcome(NewGuide, TRUE,
                Json(TRUE,
                     Msg("Perfect! Client profile created for {full_name}. ID: {client_id}. Ready for an estimate?",
                         <<full_name>>, ""),
                     Msg("Client profile created for {full_name}. What would you like to do next?",
                         <<full_name>>, ""),
                     TRUE, 0, -1),
                <<call>>)
        ELSE Outcome([st EXCEPT !.data = data], TRUE,
                Json(FALSE, Msg("Error creating client. Try again.", <<>>, ""),
                     NoMsg, FALSE, 0, -1),
                <<call>>)

\* CommitBranch clearing the state whatever add_client returns
CommitBranchClears(st, h, ok, rows) ==
    LET data == Put(st.data, "email", h.text)
        full_name == data["first_name"] \o <<" ">> \o data["last_name"]
        client_id == AddClient(full_name, data["address"], data["phone"], data["email"], ok, rows)
        call == [full_name |-> full_name, address |-> data["address"],
                 phone |-> data["phone"], email |-> data["email"], client_id |-> client_id]
    IN  IF client_id # 0
        THEN Outcome(NewGuide, TRUE,
                Json(TRUE,
                     Msg("Perfect! Client profile created for {full_name}. ID: {client_id}. Ready for an estimate?",
                         <<full_name>>, ""),
                     Msg("Client profile created for {full_name}. What would you like to do next?",
                         <<full_name>>, ""),
                     TRUE, client_id, -1),
                <<call>>)
        ELSE Outcome(NewGuide, TRUE,
                Json(FALSE, Msg("Error creating client. Try again.", <<>>, ""),
                     NoMsg, FALSE, 0, -1),
                <<call>>)

\* lines 404-418: taken when the step read at line 351 is 4; st is the state
\* after lines 400-402
CommitBranch(st, h, ok, rows) ==
    LET data == Put(st.data, "email", h.text)
        full_name == data["first_name"] \o <<" ">> \o data["last_name"]
        client_id == AddClient(full_name, data["address"], data["phone"], data["email"], ok, rows)
        call == [full_name |-> full_name, address |-> data["address"],
                 phone |-> data["phone"], email |-> data["email"], client_id |-> client_id]
    IN  IF client_id # 0
        THEN Outcome(NewGuide, TRUE,
                Json(TRUE,
                     Msg("Perfect! Client profile created for {full_name}. ID: {client_id}. Ready for an estimate?",
                         <<full_name>>, ""),
                     Msg("Client profile created for {full_name}. What would you like to do next?",
                         <<full_name>>, ""),
                     TRUE, client_id, -1),
                <<call>>)
        ELSE Outcome([st EXCEPT !.data = data], TRUE,
                Json(FALSE, Msg("Error creating client. Try again.", <<>>, ""),
                     NoMsg, FALSE, 0, -1),
                <<call>>)

\* lines 397-425
CollectBranch(state, h, ok, rows) ==
    LET step == state.step
        st == [step |-> state.step + 1, data |-> Put(state.data, KeyMap(step), h.text)]
    IN  IF step = 4
        THEN CommitBranch(st, h, ok, rows)
        ELSE Outcome(st, TRUE,
                Json(TRUE,
                     Msg("Noted: {text}. Now, {prompts[step]}", <<h.text>>, Prompt(step)),
                     Msg("{prompts[step]}", <<>>, Prompt(step)),
                     FALSE, 0, step),
                <<>>)

\* FallThrough storing the empty state
FallThroughResets(state) ==
    Outcome(NewGuide, TRUE,
            Json(FALSE,
                 Msg(IF state.step > 0 THEN "Please complete the client profile first."
                                       ELSE "Try: \"create new client profile\" to start.",
                     <<>>, ""),
                 NoMsg, FALSE, 0, -1),
            <<>>)

\* lines 427-430
FallThrough(state) ==
    Outcome(state, FALSE,
            Json(FALSE,
                 Msg(IF state.step > 0 THEN "Please complete the client profile first."
                                       ELSE "Try: \"create new client profile\" to start.",
                     <<>>, ""),
                 NoMsg, FALSE, 0, -1),
            <<>>)

\* lines 351-430: the branch taken on the loaded state
Transition(state, h, ok, rows) ==
    LET step == state.step
    IN  IF h.cancel THEN CancelBranch(state)
        ELSE IF step = 0 THEN IdleBranch(state, h)
        ELSE IF step = 1 THEN
            IF h.confirm THEN ConfirmedBranch(state, h)
            ELSE CorrectionBranch(state, h)
        ELSE IF 2 <= step /\ step <= 4 THEN CollectBranch(state, h, ok, rows)
        ELSE FallThrough(state)

\* lines 35-39: what the client gets when the handler raises
HandleError == [status |-> 500, body |-> "An error occurred. Please try again."]

\* The handler raises KeyError on the loaded state: state['step'] at line 351,
\* state['data'] at line 366, 388 or 400. Each of these lines comes before the
\* branch's assignment of session['client_guide'].
Raises(state, h) ==
    \/ "step" \notin DOMAIN state
    \/ /\ "data" \notin DOMAIN state
       /\ ~h.cancel
       /\ \/ state.step = 0
          \/ state.step = 1 /\ ~h.confirm
          \/ 2 <= state.step /\ state.step <= 4

\* lines 343-430, for an authenticated session: the session afterwards, whether
\* it was saved (a session key was assigned), the response, the add_client calls
Dialogue(sess, h, ok, rows) ==
    IF h.text = <<>>
    THEN [session |-> sess, saved |-> FALSE, calls |-> <<>>,
          resp |-> Json(FALSE, Msg("No text received.", <<>>, ""), NoMsg, FALSE, 0, -1)]
    ELSE LET absent == "client_guide" \notin DOMAIN sess
             state == IF absent THEN NewGuide ELSE sess["client_guide"]
         IN  IF Raises(state, h)
             THEN [session |-> sess, saved |-> FALSE, calls |-> <<>>, resp |-> HandleError]
             ELSE LET out == Transition(state, h, ok, rows)
                  IN  [session |-> SaveSession(sess, absent \/ out.assigned, out.guide),
                       saved |-> absent \/ out.assigned,
                       calls |-> out.calls,
                       resp |-> out.resp]

\* The handler as a function of the session the request arrives with.
Handle(sess, raw, ok, rows) ==
    IF ~Authenticated(sess)
    THEN [session |-> sess, saved |-> FALSE, calls |-> <<>>,
          resp |-> Json(FALSE, Msg("Login required.", <<>>, ""), NoMsg, FALSE, 0, -1)]
    ELSE Dialogue(sess, Analysed[raw], ok, rows)

----------------------------------------------------------------------------
(* The utterances as the specification classifies them (spec section 4.1) *)

HasWord(raw, word) == Contains(Lowercase(raw), word)

Said ==
    [raw \in Utterances |->
        [blank   |-> \A i \in 1..Len(raw) : IsSpace(raw[i]),
         cancel  |-> \/ HasWord(raw, <<"c","a","n","c","e","l">>)
                     \/ HasWord(raw, <<"s","t","o","p">>)
                     \/ HasWord(raw, <<"n","e","v","e","r"," ","m","i","n","d">>),
         confirm |-> \/ HasWord(raw, <<"y","e","s">>)
                     \/ HasWord(raw, <<"c","o","r","r","e","c","t">>),
         text    |-> Strip(Lowercase(raw)),
         name    |-> Title(Strip(Lowercase(raw)))]]

----------------------------------------------------------------------------
(* The happy path of spec section 8, followed as the requests arrive *)

Script == <<U_Smith, U_Yes, U_John, U_Address, U_Phone, U_Email>>

\* An authenticated session with no conversation state.
Fresh(sess) == "user" \in DOMAIN sess /\ "client_guide" \notin DOMAIN sess

\* The scenario's position after `raw` is sent to a session `sess`.
ScriptAfter(pos, sess, raw) ==
    IF pos >= 1 /\ pos < Len(Script) /\ raw = Script[pos + 1] THEN pos + 1
    ELSE IF raw = Script[1] /\ Fresh(sess) THEN 1
    ELSE 0

\* A request with text `raw` to session `sess` that corrects the last name: the
\* session is authenticated and at step 1, and the text is not blank and holds
\* no confirmation and no cancellation keyword.
IsCorrection(sess, raw) ==
    /\ "user" \in DOMAIN sess
    /\ "client_guide" \in DOMAIN sess
    /\ "step" \in DOMAIN sess["client_guide"]
    /\ sess["client_guide"].step = 1
    /\ ~Said[raw].blank /\ ~Said[raw].confirm /\ ~Said[raw].cancel

\* The number of times in a row the same correction has been sent, `raw` included.
CorrectionsAfter(n, prev, sess, raw) ==
    IF ~IsCorrection(sess, raw) THEN 0
    ELSE IF n >= 1 /\ prev = raw THEN 2
    ELSE 1

\* The dialogue in which the last name is given, corrected and confirmed, and
\* the other fields follow.
Revision == <<U_John, U_Smith, U_Yes, U_John, U_Address, U_Phone, U_Email>>

\* The position in Revision after `raw` is sent to a session `sess`.
RevisionAfter(pos, sess, raw) ==
    IF pos >= 1 /\ pos < Len(Revision) /\ raw = Revision[pos + 1] THEN pos + 1
    ELSE IF raw = Revision[1] /\ Fresh(sess) THEN 1
    ELSE 0

----------------------------------------------------------------------------
(* The state machine *)

\* No request has been sent.
NoBurst == [from |-> EmptySession, rows |-> 0, texts |-> <<>>, made |-> {}]

Init ==
    /\ session = EmptySession
    /\ nclients = 0
    /\ request = [route |-> "none", text |-> <<>>, cookie |-> EmptySession]
    /\ response = [status |-> 0]
    /\ calls = <<>>
    /\ script = 0
    /\ attempts = <<>>
    /\ corrections = 0
    /\ revision = 0
    /\ inflight = <<>>
    /\ burst = NoBurst

\* The outcomes add_client can have: it fails at will, and always once the table
\* is full.
RepositoryOutcomes(rows) == {ok \in BOOLEAN : ok => rows < MaxClients}

\* POST /process_voice with {'text': raw}, under each outcome the repository can
\* have should the handler reach add_client
ProcessVoice(raw) ==
    /\ \E out \in {Handle(session, raw, ok, nclients) : ok \in RepositoryOutcomes(nclients)} :
       \E pos \in {ScriptAfter(script, session, raw)} :
           /\ session' = out.session
           /\ response' = out.resp
           /\ nclients' = IF out.calls # <<>> /\ out.calls[1].client_id # 0
                          THEN nclients + 1 ELSE nclients
           /\ request' = [route |-> "process_voice", text |-> raw, cookie |-> session]
           /\ calls' = out.calls
           /\ corrections' = CorrectionsAfter(corrections, request.text, session, raw)
           /\ script' = pos
           /\ revision' = RevisionAfter(revision, session, raw)
           /\ UNCHANGED <<inflight, burst>>
           /\ attempts' = IF pos = 0 THEN <<>>
                          ELSE IF pos = 1 THEN out.calls
                          ELSE attempts \o out.calls

\* users table: the row init_db inserts ("" when the username has no row)
StoredPassword(username) == IF username = "admin" THEN "password" ELSE ""

\* CheckPassword looking only for the user's row
CheckPasswordKnownUser(username, password) == StoredPassword(username) # ""

\* stored_hash and check_password_hash(stored_hash, password)
CheckPassword(username, password) ==
    StoredPassword(username) # "" /\ StoredPassword(username) = password

\* POST /login
Login(username, password) ==
    /\ IF CheckPassword(username, password)
       THEN /\ session' = Put(session, "user", username)
            /\ response' = [status |-> 302]
       ELSE /\ session' = session
            /\ response' = [status |-> 401]
    /\ request' = [route |-> "login", text |-> <<>>, cookie |-> session,
                   form |-> <<username, password>>]
    /\ calls' = <<>>
    /\ script' = 0
    /\ attempts' = <<>>
    /\ corrections' = 0
    /\ revision' = 0
    /\ UNCHANGED <<nclients, inflight, burst>>

\* POST /client_login
ClientLogin ==
    /\ session' = Put(session, "client_id", 1)
    /\ response' = [status |-> 302]
    /\ request' = [route |-> "client_login", text |-> <<>>, cookie |-> session]
    /\ calls' = <<>>
    /\ script' = 0
    /\ attempts' = <<>>
    /\ corrections' = 0
    /\ revision' = 0
    /\ UNCHANGED <<nclients, inflight, burst>>

\* Logout dropping the conversation state as well
LogoutClearsGuide ==
    /\ session' = Pop(Pop(Pop(Pop(session, "user"), "client_id"), "favorites"), "client_guide")
    /\ response' = [status |-> 302]
    /\ request' = [route |-> "logout", text |-> <<>>, cookie |-> session]
    /\ calls' = <<>>
    /\ script' = 0
    /\ attempts' = <<>>
    /\ corrections' = 0
    /\ revision' = 0
    /\ UNCHANGED <<nclients, inflight, burst>>

\* GET /logout
Logout ==
    /\ session' = Pop(Pop(Pop(session, "user"), "client_id"), "favorites")
    /\ response' = [status |-> 302]
    /\ request' = [route |-> "logout", text |-> <<>>, cookie |-> session]
    /\ calls' = <<>>
    /\ script' = 0
    /\ attempts' = <<>>
    /\ corrections' = 0
    /\ revision' = 0
    /\ UNCHANGED <<nclients, inflight, burst>>

Next ==
    \/ \E raw \in Utterances : ProcessVoice(raw)
    \/ \E c \in Credentials : Login(c[1], c[2])
    \/ Logout

Spec == Init /\ [][Next]_vars

----------------------------------------------------------------------------
(* The routes that write the session, client_login included, with a short   *)
(* dialogue.                                                                *)

AuthUtterances == {U_Yes, U_John, U_Cancel}

NextAuth ==
    \/ \E raw \in AuthUtterances : ProcessVoice(raw)
    \/ \E c \in Credentials : Login(c[1], c[2])
    \/ ClientLogin
    \/ Logout

SpecAuth == Init /\ [][NextAuth]_vars

----------------------------------------------------------------------------
(* Sessions whose conversation state is not one the handler writes. The     *)
(* session is a cookie the client holds, signed with a key that defaults to *)
(* 'dev_key' (line 20): a cookie written by another version of the          *)
(* application, or made by the client, carries whatever client_guide it     *)
(* likes.                                                                   *)

\* client_guide values with the step or the data key missing, or a step that no
\* branch of the handler writes
CorruptGuides ==
    { [data |-> EmptyData],
      [step |-> 0],
      [step |-> 1],
      [step |-> 7, data |-> EmptyData],
      [step |-> -1, data |-> EmptyData] }

InitCorrupt ==
    /\ session \in {[k \in {"user", "client_guide"} |->
                        IF k = "user" THEN "admin" ELSE g] : g \in CorruptGuides}
    /\ nclients = 0
    /\ request = [route |-> "none", text |-> <<>>, cookie |-> EmptySession]
    /\ response = [status |-> 0]
    /\ calls = <<>>
    /\ script = 0
    /\ attempts = <<>>
    /\ corrections = 0
    /\ revision = 0
    /\ inflight = <<>>
    /\ burst = NoBurst

SpecCorrupt == InitCorrupt /\ [][Next]_vars

----------------------------------------------------------------------------
(* Overlapping requests. The conversation state lives in the cookie: a       *)
(* request carries the cookie the client holds when it is sent, the handler  *)
(* works on that copy, and the client replaces its cookie when an answer     *)
(* that saved the session arrives. Nothing in process_voice serialises the   *)
(* requests of one session. A burst is a run of requests sent before any of  *)
(* them is answered.                                                         *)

ConcurrentUtterances == {U_Yes, U_John, U_Cancel}

\* The outcomes add_client can have when requests overlap.
BurstOutcomes(rows) == {ok \in BOOLEAN : ok => rows < MaxBurstClients}

\* The calls that created a Client.
CreatedBy(made) == {made[i] : i \in {j \in 1..Len(made) : made[j].client_id # 0}}

InitConcurrent ==
    /\ session = [k \in {"user"} |-> "admin"]
    /\ nclients = 0
    /\ request = [route |-> "none", text |-> <<>>, cookie |-> EmptySession]
    /\ response = [status |-> 0]
    /\ calls = <<>>
    /\ script = 0
    /\ attempts = <<>>
    /\ corrections = 0
    /\ revision = 0
    /\ inflight = <<>>
    /\ burst = NoBurst

\* The client posts {'text': raw} with the cookie it holds; it does so while
\* another request is in flight only if none of the burst has been answered.
Send(raw) ==
    /\ \/ inflight = <<>>
       \/ Len(inflight) < MaxInFlight /\ Len(inflight) = Len(burst.texts)
    /\ inflight' = Append(inflight, [text |-> raw, cookie |-> session])
    /\ burst' = IF inflight = <<>>
                THEN [from |-> session, rows |-> nclients, texts |-> <<raw>>, made |-> {}]
                ELSE [burst EXCEPT !.texts = Append(@, raw)]
    /\ UNCHANGED <<session, nclients, request, response, calls, script, attempts,
                   corrections, revision>>

\* process_voice runs on the i-th request in flight and its answer reaches the
\* client, whose cookie is replaced if the handler saved the session.
Serve(i) ==
    /\ i \in 1..Len(inflight)
    /\ LET req == inflight[i]
       IN  \E out \in {Handle(req.cookie, req.text, ok, nclients) : ok \in BurstOutcomes(nclients)} :
               /\ session' = IF out.saved THEN out.session ELSE session
               /\ response' = out.resp
               /\ nclients' = nclients + Cardinality(CreatedBy(out.calls))
               /\ request' = [route |-> "process_voice", text |-> req.text, cookie |-> req.cookie]
               /\ calls' = out.calls
               /\ burst' = [burst EXCEPT !.made = @ \cup CreatedBy(out.calls)]
    /\ inflight' = [j \in 1..(Len(inflight) - 1) |->
                        IF j < i THEN inflight[j] ELSE inflight[j + 1]]
    /\ script' = 0
    /\ attempts' = <<>>
    /\ corrections' = 0
    /\ revision' = 0

NextConcurrent ==
    \/ \E raw \in ConcurrentUtterances : Send(raw)
    \/ \E i \in 1..MaxInFlight : Serve(i)

SpecConcurrent == InitConcurrent /\ [][NextConcurrent]_vars

----------------------------------------------------------------------------
(* Properties. Each speaks of the request handled last: `request.cookie` is  *)
(* the session it arrived with, `session` the session it left.               *)

Voice == request.route = "process_voice"

\* The request came from a staff-authenticated session.
FromStaff == "user" \in DOMAIN request.cookie

HasGuide(sess) == "client_guide" \in DOMAIN sess

\* The dialogue step of a session; a session without conversation state is idle.
StepOf(sess) == IF HasGuide(sess) THEN sess["client_guide"].step ELSE Idle

\* The collected data of a session.
DataOf(sess) == IF HasGuide(sess) THEN sess["client_guide"].data ELSE EmptyData

\* The last request was an utterance the dialogue acts on: from staff, not blank.
Heard == Voice /\ FromStaff /\ ~Said[request.text].blank

\* It created a Client.
Created == \E i \in 1..Len(calls) : calls[i].client_id # 0

\* It asked the repository for a Client and the repository failed.
FailedCommit == Voice /\ calls # <<>> /\ ~Created

JohnSmith == <<"J","o","h","n"," ","S","m","i","t","h">>

\* C1: after the six utterances of the happy path, sent to an authenticated
\* session with no conversation state, with the repository never failing, exactly
\* one Client has been created, its full name is "John Smith", and the response
\* to the sixth utterance carries reset = true and a client_id.
C1_HappyPath ==
    (script = Len(Script) /\ \A i \in 1..Len(attempts) : attempts[i].client_id # 0)
        => /\ Len(attempts) = 1
           /\ attempts[1].full_name = JohnSmith
           /\ response.reset
           /\ response.client_id # 0

\* C2: in every stored conversation state, the step is Idle exactly when the
\* collected data is empty.
C2_IdleIffEmpty ==
    HasGuide(session) => (StepOf(session) = Idle <=> DOMAIN DataOf(session) = {})

\* C2 witness: the state a failed commit leaves, with all its fields.
C2_Witness ==
    /\ FailedCommit
    /\ StepOf(session) = AwaitEmail
    /\ DOMAIN DataOf(session) = {"last_name", "first_name", "address", "phone", "email"}

\* C3: an utterance from staff that holds a cancellation keyword leaves the stored
\* state Idle with no collected data, creates no Client and returns reset = true.
C3_CancelResets ==
    (Heard /\ Said[request.text].cancel)
        => /\ HasGuide(session)
           /\ session["client_guide"] = NewGuide
           /\ calls = <<>>
           /\ response.success
           /\ response.reset

\* C3 witness: "yes, stop" sent to the state a failed commit left.
C3_Witness ==
    /\ Heard
    /\ request.text = U_YesStop
    /\ StepOf(request.cookie) = AwaitEmail
    /\ session["client_guide"] = NewGuide
    /\ response.reset

\* C4: when Client creation fails at the commit the response has success = false
\* and no reset = true, and the same utterance sent again is accepted: it calls
\* add_client again with the full name, address and phone of the failed call,
\* and succeeds if the repository does.
C4_RetryAfterFailure ==
    [][ FailedCommit =>
          /\ ~response.success
          /\ ~response.reset
          /\ (request'.route = "process_voice" /\ request'.text = request.text)
                => /\ calls' # <<>>
                   /\ calls'[1].full_name = calls[1].full_name
                   /\ calls'[1].address = calls[1].address
                   /\ calls'[1].phone = calls[1].phone
                   /\ (calls'[1].client_id # 0 => response'.success) ]_vars

\* C5: after a failed Client creation the stored step is not Idle and the
\* collected data still holds the last name, first name and address the request
\* arrived with and the phone value passed to the repository.
C5_FailureKeepsState ==
    FailedCommit =>
        /\ StepOf(session) # Idle
        /\ \A k \in {"last_name", "first_name", "address"} :
              /\ k \in DOMAIN DataOf(session)
              /\ DataOf(session)[k] = DataOf(request.cookie)[k]
        /\ "phone" \in DOMAIN DataOf(session)
        /\ DataOf(session)["phone"] = calls[1].phone

\* C5 witness: the repository fails on "555-123-4567" for John Smith.
C5_Witness ==
    /\ FailedCommit
    /\ request.text = U_Phone
    /\ DataOf(session)["last_name"] = U_Smith
    /\ DataOf(session)["phone"] = U_Phone
    /\ ~response.success

\* C6: an utterance to a session without 'user' is refused with success = false,
\* leaves the session as it arrived (conversation state absent stays absent) and
\* calls no Client creation.
C6_UnauthorizedRefused ==
    (Voice /\ ~FromStaff) =>
        /\ ~response.success
        /\ session = request.cookie
        /\ calls = <<>>

\* C6 witness: after a logout in mid-dialogue, the utterance that would commit.
C6_Witness ==
    /\ Voice /\ ~FromStaff
    /\ StepOf(request.cookie) = AwaitPhone
    /\ request.text = U_Phone
    /\ session = request.cookie
    /\ ~response.success

\* C7: a blank utterance from staff is rejected with success = false, leaves the
\* stored conversation state as it was and creates no Client.
C7_BlankRejected ==
    (Voice /\ FromStaff /\ Said[request.text].blank) =>
        /\ ~response.success
        /\ session = request.cookie
        /\ calls = <<>>

\* C7 witness: three spaces sent while the first name is awaited.
C7_Witness ==
    /\ Voice /\ FromStaff
    /\ request.text = U_Blank
    /\ StepOf(request.cookie) = AwaitFirstName
    /\ StepOf(session) = AwaitFirstName
    /\ ~response.success

\* C8: at AwaitLastNameConfirm an utterance with no confirmation and no
\* cancellation keyword leaves the stored step at AwaitLastNameConfirm, and the
\* response asks again for confirmation with the title-cased utterance and its
\* spelling.
C8_CorrectionReprompts ==
    (Voice /\ IsCorrection(request.cookie, request.text)) =>
        LET name == Said[request.text].name
        IN  /\ StepOf(session) = AwaitLastNameConfirm
            /\ response.success
            /\ ~response.reset
            /\ response.message =
                  Msg("Got it, {last_name}. Spelling: {spelled}. Correct now?",
                      <<name, SpellOut(name)>>, "")
            /\ response.tts =
                  Msg("Got it. Confirm spelling: {spelled}. Is that correct?",
                      <<SpellOut(name)>>, "")

\* C8 witness: "John" sent when "Smith" awaits confirmation.
C8_Witness ==
    /\ Voice /\ IsCorrection(request.cookie, request.text)
    /\ request.text = U_John
    /\ DataOf(request.cookie)["last_name"] = U_Smith
    /\ response.message.args = <<U_John, <<"J"," ","o"," ","h"," ","n">> >>
    /\ StepOf(session) = AwaitLastNameConfirm

\* C9: after the same correction has been sent twice in a row, the stored last
\* name is the title-cased utterance.
C9_RepeatedCorrection ==
    corrections = 2 =>
        /\ "last_name" \in DOMAIN DataOf(session)
        /\ DataOf(session)["last_name"] = Said[request.text].name

\* C10: at AwaitPhone an utterance with no cancellation keyword moves the stored
\* step to AwaitEmail, is stored as phone and not as email, is answered with the
\* prompt for the email address, and calls no Client creation.
C10_PhoneThenEmail ==
    (Heard /\ StepOf(request.cookie) = AwaitPhone /\ ~Said[request.text].cancel) =>
        /\ StepOf(session) = AwaitEmail
        /\ DataOf(session)["phone"] = Said[request.text].text
        /\ "email" \notin DOMAIN DataOf(session)
        /\ response.success
        /\ response.message.prompt = "Email address?"
        /\ calls = <<>>

\* C11: add_client is called only by a request that arrives at AwaitEmail with
\* last name, first name, address and phone already collected, and the email it
\* passes is that request's utterance, the phone an earlier one.
C11_CommitOnlyAtEmail ==
    (Voice /\ calls # <<>>) =>
        /\ StepOf(request.cookie) = AwaitEmail
        /\ {"last_name", "first_name", "address", "phone"} \subseteq DOMAIN DataOf(request.cookie)
        /\ calls[1].email = Said[request.text].text
        /\ calls[1].phone = DataOf(request.cookie)["phone"]

\* C13: a response carries reset = true exactly when the request was a
\* cancellation from staff or created a Client, and then the stored state is
\* Idle and empty; it carries a client_id exactly when the request created a
\* Client.
C13_ResetAndClientId ==
    Voice =>
        /\ response.reset <=> ((Heard /\ Said[request.text].cancel) \/ Created)
        /\ response.reset => (HasGuide(session) /\ session["client_guide"] = NewGuide)
        /\ response.client_id # 0 <=> Created
        /\ Created => response.client_id = calls[1].client_id

\* C13 witness: a request that created a Client and says so.
C13_Witness ==
    /\ Voice /\ Created
    /\ response.reset
    /\ response.client_id = 1
    /\ StepOf(session) = Idle

\* C15: in every stored conversation state first_name is present only past
\* AwaitFirstName, address only past AwaitAddress, phone only past AwaitPhone,
\* and email is never present.
C15_FieldsFollowSteps ==
    HasGuide(session) =>
        LET step == StepOf(session)
            data == DataOf(session)
        IN  /\ "first_name" \in DOMAIN data => step > AwaitFirstName
            /\ "address" \in DOMAIN data => step > AwaitAddress
            /\ "phone" \in DOMAIN data => step > AwaitPhone
            /\ "email" \notin DOMAIN data

\* C17: an utterance from staff with no cancellation keyword, to a session that
\* is idle or has no conversation state, leaves a stored state at
\* AwaitLastNameConfirm whose only field is last_name, the title-cased utterance;
\* it creates no Client and returns success = true without reset.
C17_IdleStarts ==
    (Heard /\ StepOf(request.cookie) = Idle /\ ~Said[request.text].cancel) =>
        /\ HasGuide(session)
        /\ session["client_guide"] =
              [step |-> AwaitLastNameConfirm,
               data |-> [k \in {"last_name"} |-> Said[request.text].name]]
        /\ calls = <<>>
        /\ response.success
        /\ ~response.reset

\* C17 witness: the address sent to a session with no conversation state.
C17_Witness ==
    /\ Heard
    /\ ~HasGuide(request.cookie)
    /\ request.text = U_Address
    /\ DataOf(session)["last_name"] =
          <<"1","2","3"," ","M","a","i","n"," ","S","t",","," ","S","p","r","i","n","g",
            "f","i","e","l","d",","," ","I","l"," ","6","2","7","0","4">>

\* C18: at AwaitLastNameConfirm an utterance with a confirmation keyword and no
\* cancellation keyword moves the stored step to AwaitFirstName, leaves the
\* collected data as it was (last_name alone), and is answered with the prompt
\* for the first name.
C18_ConfirmAdvances ==
    (Heard /\ StepOf(request.cookie) = AwaitLastNameConfirm
           /\ Said[request.text].confirm /\ ~Said[request.text].cancel) =>
        /\ StepOf(session) = AwaitFirstName
        /\ DataOf(session) = DataOf(request.cookie)
        /\ DOMAIN DataOf(session) = {"last_name"}
        /\ response.success
        /\ response.message.prompt = "First Name?"
        /\ response.tts.prompt = "First Name?"
        /\ calls = <<>>

\* C18 witness: "Correct" confirms "Smith".
C18_Witness ==
    /\ Heard
    /\ request.text = U_Correct
    /\ StepOf(request.cookie) = AwaitLastNameConfirm
    /\ StepOf(session) = AwaitFirstName
    /\ DataOf(session)["last_name"] = U_Smith

\* C20: a request leaves the stored step as it was, or one higher, or at Idle.
C20_StepMoves ==
    Voice =>
        \/ StepOf(session) = StepOf(request.cookie)
        \/ StepOf(session) = StepOf(request.cookie) + 1
        \/ StepOf(session) = Idle

\* C20 witness: the step went from AwaitAddress to AwaitPhone.
C20_Witness ==
    /\ Voice
    /\ StepOf(request.cookie) = AwaitAddress
    /\ StepOf(session) = AwaitPhone


----------------------------------------------------------------------------
\* The templates whose text asks the user to confirm the spelling of the last
\* name ("Is that correct?", "Correct now?").
ConfirmTemplates ==
    { "You said {last_name}. Confirm spelling: {spelled}. Is that correct? Say 'yes' or correct it.",
      "Got it, {last_name}. Spelling: {spelled}. Correct now?",
      "Got it. Confirm spelling: {spelled}. Is that correct?" }

\* The next action a formatted string asks the user for: the field whose prompt
\* it ends with, the confirmation of the spelling, or nothing.
Asks(msg) ==
    IF msg.prompt # "" THEN msg.prompt
    ELSE IF msg.tpl \in ConfirmTemplates THEN "Confirm spelling"
    ELSE "Nothing"

\* C14: every successful answer that carries both a display and a spoken message
\* asks for the same next action in both; on the move from Idle to
\* AwaitLastNameConfirm both ask to confirm the spelling.
C14_SameAction ==
    (Heard /\ response.success /\ response.tts # NoMsg) =>
        /\ Asks(response.message) = Asks(response.tts)
        /\ (StepOf(request.cookie) = Idle /\ StepOf(session) = AwaitLastNameConfirm)
               => Asks(response.tts) = "Confirm spelling"

----------------------------------------------------------------------------
\* C19: in the dialogue "John", "Smith" (a correction), "yes", then the other
\* fields, the stored last name is the corrected one from the correction on,
\* and the Client created carries it.
C19_CorrectedNameKept ==
    /\ (revision >= 2 /\ StepOf(session) >= AwaitLastNameConfirm)
           => DataOf(session)["last_name"] = U_Smith
    /\ (revision >= 3 /\ Created)
           => \E first \in {Said[raw].text : raw \in Utterances} :
                  calls[1].full_name = first \o <<" ">> \o U_Smith

----------------------------------------------------------------------------
\* The conversation state is not of the shape the handler writes.
Malformed(guide) ==
    \/ "step" \notin DOMAIN guide
    \/ "data" \notin DOMAIN guide
    \/ guide.step \notin Idle..AwaitEmail

\* C12: a request with text from a staff session whose stored state is
\* malformed is answered with a structured result, and leaves the stored state
\* Idle with nothing collected.
C12_MalformedRecovered ==
    (Heard /\ HasGuide(request.cookie) /\ Malformed(request.cookie["client_guide"])) =>
        /\ response.status = 200
        /\ HasGuide(session)
        /\ session["client_guide"] = NewGuide

----------------------------------------------------------------------------
\* The stored state and the Clients created when the request with text `a` and
\* then the request with text `b` are handled one after the other, starting
\* from the session `from` and a table of `rows` rows.
Serial(from, rows, a, b) ==
    UNION { LET r1 == Handle(from, a, ok1, rows)
                rows1 == rows + Cardinality(CreatedBy(r1.calls))
            IN  { LET r2 == Handle(r1.session, b, ok2, rows1)
                  IN  [session |-> r2.session,
                       made |-> CreatedBy(r1.calls) \cup CreatedBy(r2.calls)]
                  : ok2 \in BurstOutcomes(rows1) }
            : ok1 \in BurstOutcomes(rows) }

\* C16: when two requests of a session were in flight at once and both have been
\* answered, the stored state and the Clients created are those of handling
\* the two one after the other, in one order or the other.
C16_Serializable ==
    (inflight = <<>> /\ Len(burst.texts) = 2) =>
        [session |-> session, made |-> burst.made]
            \in Serial(burst.from, burst.rows, burst.texts[1], burst.texts[2])
                \cup Serial(burst.from, burst.rows, burst.texts[2], burst.texts[1])

----------------------------------------------------------------------------
\* C21: a failed Client creation leaves the stored step 5; a request with text
\* and no cancellation keyword that arrives at step 5 is answered success =
\* false, leaves the session as it came and calls add_client not at all; one
\* with a cancellation keyword leaves step 5.
C21_StuckAtFive ==
    /\ FailedCommit => StepOf(session) = AwaitEmail
    /\ (Heard /\ StepOf(request.cookie) = AwaitEmail /\ ~Said[request.text].cancel) =>
           /\ ~response.success
           /\ session = request.cookie
           /\ calls = <<>>
    /\ (Heard /\ StepOf(request.cookie) = AwaitEmail /\ Said[request.text].cancel) =>
           StepOf(session) = Idle

\* C21 witness: the e-mail address sent to the state a failed commit left.
C21_Witness ==
    /\ Heard
    /\ request.text = U_Email
    /\ StepOf(request.cookie) = AwaitEmail
    /\ StepOf(session) = AwaitEmail
    /\ "email" \in DOMAIN DataOf(session)
    /\ response.message.tpl = "Please complete the client profile first."

----------------------------------------------------------------------------
\* The request handled last is one of those that never reach add_client: not
\* from a staff session, without text, with a cancellation keyword, or arriving
\* at Idle or at AwaitLastNameConfirm.
NeverCreates ==
    \/ ~FromStaff
    \/ Said[request.text].blank
    \/ Said[request.text].cancel
    \/ StepOf(request.cookie) <= AwaitLastNameConfirm

\* C22: a request calls add_client at most once, and not at all when it is
\* unauthenticated, empty, cancelling, an Idle start, a confirmation or a
\* correction; the clients table grows by one row exactly in the steps whose
\* response carries a client_id, and does not change otherwise.
C22_OneClientPerId ==
    /\ [](Voice => (Len(calls) <= 1 /\ (NeverCreates => calls = <<>>)))
    /\ [][ nclients' = nclients +
               (IF request'.route = "process_voice" /\ response'.client_id # 0
                THEN 1 ELSE 0) ]_vars

\* C22 witness: the one row of the table and the one response with a client_id.
C22_Witness ==
    /\ Voice
    /\ Len(calls) = 1
    /\ response.client_id = 1
    /\ nclients = 1

----------------------------------------------------------------------------
\* C23: logout leaves the session without 'user', 'client_id' and 'favorites'
\* and with every other key as it was, the conversation state among them; a
\* staff login on a session that holds a conversation state leaves that state
\* as it was.
C23_LogoutKeepsGuide ==
    /\ request.route = "logout" =>
           /\ DOMAIN session = DOMAIN request.cookie \ {"user", "client_id", "favorites"}
           /\ \A k \in DOMAIN session : session[k] = request.cookie[k]
    /\ (request.route = "login" /\ response.status = 302 /\ HasGuide(request.cookie)) =>
           /\ HasGuide(session)
           /\ session["client_guide"] = request.cookie["client_guide"]

\* C23 witness: a logout in mid-dialogue, from a session that was logged in as
\* staff and as client.
C23_Witness ==
    /\ request.route = "logout"
    /\ {"user", "client_id"} \subseteq DOMAIN request.cookie
    /\ StepOf(request.cookie) = AwaitAddress
    /\ DOMAIN session = {"client_guide"}
    /\ StepOf(session) = AwaitAddress
    /\ DataOf(session) = DataOf(request.cookie)

----------------------------------------------------------------------------
\* C24: the request that leaves a session with 'user' which it did not have is
\* a login with the username and password of the users table; a login with
\* other credentials is answered 401 and leaves the session as it was; a
\* client_login leaves 'user' as it was; process_voice answers a session
\* without 'user' "Login required." and leaves it as it was.
C24_OnlyValidLogin ==
    /\ ("user" \in DOMAIN session /\ "user" \notin DOMAIN request.cookie) =>
           (request.route = "login" /\ request.form = <<"admin", "password">>)
    /\ (request.route = "login" /\ request.form # <<"admin", "password">>) =>
           (response.status = 401 /\ session = request.cookie)
    /\ request.route = "client_login" =>
           ("user" \in DOMAIN session <=> "user" \in DOMAIN request.cookie)
    /\ (Voice /\ ~FromStaff) =>
           /\ ~response.success
           /\ response.message.tpl = "Login required."
           /\ session = request.cookie

\* C24 witness: process_voice refusing a session that holds only what
\* client_login gave it.
C24_Witness ==
    /\ Voice
    /\ request.cookie = [k \in {"client_id"} |-> 1]
    /\ session = request.cookie
    /\ response.message.tpl = "Login required."
============================================================================
